---------------------------- MODULE Spec2Model ----------------------------
(***************************************************************************)
(* A model of cheap-ruler (src/src/lib.rs): the ruler's multipliers and    *)
(* unit changes, and the geometry operations built on them.                *)
(*                                                                         *)
(* f64 values are modelled as exact rationals [n, d] in lowest terms with  *)
(* d > 0, extended with the three non-finite values a division by zero     *)
(* produces: NaN = 0/0, +Inf = 1/0, -Inf = -1/0.  Rounding is not          *)
(* modelled; signed zero is not modelled.                                  *)
(***************************************************************************)
EXTENDS Integers, Sequences, FiniteSets, TLC

VARIABLES rulers, hist, call, ret

vars == <<rulers, hist, call, ret>>

-----------------------------------------------------------------------------
(* f64 arithmetic *)

Abs(i) == IF i < 0 THEN -i ELSE i

Sign(i) == IF i < 0 THEN -1 ELSE IF i > 0 THEN 1 ELSE 0

RECURSIVE GCD(_, _)
GCD(a, b) == IF b = 0 THEN a ELSE GCD(b, a % b)

R2(n, d) ==
    IF d = 0 THEN [n |-> Sign(n), d |-> 0]
    ELSE LET g == GCD(Abs(n), Abs(d))
         IN  [n |-> Sign(d) * (n \div g), d |-> Abs(d) \div g]

R(i) == [n |-> i, d |-> 1]

NaN == [n |-> 0, d |-> 0]

IsNaN(a) == a.d = 0 /\ a.n = 0

IsInf(a) == a.d = 0 /\ a.n # 0

IsFinite(a) == a.d # 0

RNeg(a) == [n |-> -a.n, d |-> a.d]

RAdd(a, b) ==
    IF IsNaN(a) \/ IsNaN(b) THEN NaN
    ELSE IF IsInf(a) /\ IsInf(b) THEN (IF a.n = b.n THEN a ELSE NaN)
    ELSE IF IsInf(a) THEN a
    ELSE IF IsInf(b) THEN b
    ELSE LET g == GCD(a.d, b.d)
         IN  R2(a.n * (b.d \div g) + b.n * (a.d \div g), (a.d \div g) * b.d)

RSub(a, b) == RAdd(a, RNeg(b))

RMul(a, b) ==
    IF IsNaN(a) \/ IsNaN(b) THEN NaN
    ELSE IF a.d = 0 \/ b.d = 0
         THEN [n |-> Sign(a.n) * Sign(b.n), d |-> 0]
    ELSE LET g1 == GCD(Abs(a.n), b.d)
             g2 == GCD(Abs(b.n), a.d)
         IN  R2((a.n \div g1) * (b.n \div g2), (a.d \div g2) * (b.d \div g1))

RDiv(a, b) ==
    IF IsNaN(a) \/ IsNaN(b) THEN NaN
    ELSE IF IsInf(b) THEN (IF IsInf(a) THEN NaN ELSE R(0))
    ELSE IF b.n = 0 THEN [n |-> Sign(a.n), d |-> 0]
    ELSE IF IsInf(a) THEN [n |-> a.n * Sign(b.n), d |-> 0]
    ELSE RMul(a, [n |-> Sign(b.n) * b.d, d |-> Abs(b.n)])

REq(a, b) == ~IsNaN(a) /\ ~IsNaN(b) /\ a = b

RNe(a, b) == ~REq(a, b)

RLt(a, b) ==
    /\ ~IsNaN(a)
    /\ ~IsNaN(b)
    /\ IF a.d = 0 /\ b.d = 0 THEN a.n < b.n ELSE a.n * b.d < b.n * a.d

RGt(a, b) == RLt(b, a)

RLe(a, b) == RLt(a, b) \/ REq(a, b)

RGe(a, b) == RLe(b, a)

RAbs(a) == [n |-> Abs(a.n), d |-> a.d]

RMin(a, b) == IF IsNaN(a) THEN b ELSE IF IsNaN(b) THEN a ELSE IF RLt(b, a) THEN b ELSE a

RMax(a, b) == IF IsNaN(a) THEN b ELSE IF IsNaN(b) THEN a ELSE IF RGt(b, a) THEN b ELSE a

IsSquare(i) == \E k \in 0..i : k * k = i

ISqrt(i) == CHOOSE k \in 0..i : k * k = i

RSqrt(a) ==
    IF IsNaN(a) \/ a.n < 0 THEN NaN
    ELSE IF IsInf(a) THEN a
    ELSE [n |-> ISqrt(a.n), d |-> ISqrt(a.d)]

\* round to the nearest integer, ties to the even one (the quotient of an
\* IEEE remainder)
RoundHalfEven(a) ==
    LET f == a.n \div a.d
        r == a.n - f * a.d
    IN  IF 2 * r < a.d THEN f
        ELSE IF 2 * r > a.d THEN f + 1
        ELSE IF f % 2 = 0 THEN f ELSE f + 1

remainder(x, y) ==
    IF ~IsFinite(x) \/ IsNaN(y) \/ (IsFinite(y) /\ y.n = 0) THEN NaN
    ELSE IF IsInf(y) THEN x
    ELSE RSub(x, RMul(R(RoundHalfEven(RDiv(x, y))), y))

Pt(x, y) == [x |-> x, y |-> y]

PtEq(a, b) == REq(a.x, b.x) /\ REq(a.y, b.y)

-----------------------------------------------------------------------------
(* Constants and the unit table *)

\* equatorial radius in km: 6378.137
RE == R2(6378137, 1000)

\* PI / 180, as the rational 1/57 (PI is not rational; 180/PI = 57.29...)
RAD == R2(1, 57)

\* The units the model draws from.  The remaining units of the table
\* (yards, feet, inches) have factors whose products leave TLC's integers.
Units == {"Kilometers", "Miles", "NauticalMiles", "Meters"}

\* kilometers per unit table of DistanceUnit: 1.0, 1000/1609.344,
\* 1000/1852.0, 1000.0
conversion_factor_kilometers(distance_unit) ==
    CASE distance_unit = "Kilometers" -> R(1)
      [] distance_unit = "Miles" -> R2(15625, 25146)
      [] distance_unit = "NauticalMiles" -> R2(250, 463)
      [] distance_unit = "Meters" -> R(1000)

\* Reference latitudes (degrees) the model constructs rulers at.
Latitudes == {0, 60}

\* <<dkx, dky>> of new(): w * coslat and w * w2 * (1 - E2).  The cosine and
\* the square root are not rational; the table holds the values for
\* E2 = 0 (w = w2 = 1), where dkx = cos(latitude) and dky = 1.
curvature(latitude) ==
    CASE latitude = 0 -> <<R(1), R(1)>>
      [] latitude = 60 -> <<R2(1, 2), R(1)>>

-----------------------------------------------------------------------------
(* The ruler *)

calculate_multipliers(distance_unit, dkx, dky) ==
    LET mul == RMul(RMul(conversion_factor_kilometers(distance_unit), RAD), RE)
        kx == RMul(mul, dkx)
        ky == RMul(mul, dky)
    IN  <<kx, ky>>

new(latitude, distance_unit) ==
    LET dk == curvature(latitude)
        dkx == dk[1]
        dky == dk[2]
        k == calculate_multipliers(distance_unit, dkx, dky)
    IN  [kx |-> k[1], ky |-> k[2], dkx |-> dkx, dky |-> dky,
         distance_unit |-> distance_unit]

\* change_unit that keeps the multipliers of the old unit
change_unit_stale(self, distance_unit) ==
    [self EXCEPT !.distance_unit = distance_unit]

change_unit(self, distance_unit) ==
    LET k == calculate_multipliers(distance_unit, self.dkx, self.dky)
    IN  [self EXCEPT !.distance_unit = distance_unit, !.kx = k[1], !.ky = k[2]]

clone_with_unit(self, distance_unit) ==
    LET k == calculate_multipliers(distance_unit, self.dkx, self.dky)
    IN  [distance_unit |-> distance_unit, kx |-> k[1], ky |-> k[2],
         dkx |-> self.dkx, dky |-> self.dky]

\* The most rulers the model keeps alive at once.
MaxRulers == 3

NoCall == [op |-> "none"]

Pending == [status |-> "pending"]

\* hist is a history variable: the curvature factors computed by new(),
\* the last operation, the ruler it was called on and the rulers before it.
InitRuler ==
    \E latitude \in Latitudes, distance_unit \in Units :
        LET r == new(latitude, distance_unit)
        IN  /\ rulers = <<r>>
            /\ hist = [op |-> "new", idx |-> 1, before |-> <<>>,
                       dkx |-> r.dkx, dky |-> r.dky]
            /\ call = NoCall
            /\ ret = Pending

ChangeUnit ==
    \E i \in 1..Len(rulers), distance_unit \in Units :
        /\ rulers' = [rulers EXCEPT ![i] = change_unit(rulers[i], distance_unit)]
        /\ hist' = [hist EXCEPT !.op = "change_unit", !.idx = i, !.before = rulers]
        /\ UNCHANGED <<call, ret>>

CloneWithUnit ==
    \E i \in 1..Len(rulers), distance_unit \in Units :
        /\ Len(rulers) < MaxRulers
        /\ rulers' = Append(rulers, clone_with_unit(rulers[i], distance_unit))
        /\ hist' = [hist EXCEPT !.op = "clone_with_unit", !.idx = i, !.before = rulers]
        /\ UNCHANGED <<call, ret>>

NextRuler == ChangeUnit \/ CloneWithUnit

SpecRuler == InitRuler /\ [][NextRuler]_vars

\* C1: after any sequence of change_unit and clone_with_unit calls starting
\* from new(latitude, unit), every ruler (the original and every clone) has
\* kx = conversion(unit) * RAD * RE * dkx and ky = conversion(unit) * RAD *
\* RE * dky for its current unit, its dkx and dky are the values computed at
\* construction, and a clone_with_unit call left every ruler that existed
\* before it, the one it was called on included, as it was.
C1_MultipliersInvariant ==
    /\ \A i \in 1..Len(rulers) :
        LET r == rulers[i]
            conversion == conversion_factor_kilometers(r.distance_unit)
        IN  /\ r.kx = RMul(RMul(RMul(conversion, RAD), RE), r.dkx)
            /\ r.ky = RMul(RMul(RMul(conversion, RAD), RE), r.dky)
            /\ r.dkx = hist.dkx
            /\ r.dky = hist.dky
    /\ hist.op = "clone_with_unit" =>
        /\ Len(rulers) = Len(hist.before) + 1
        /\ \A i \in 1..Len(hist.before) : rulers[i] = hist.before[i]

\* a clone in another unit exists beside the ruler it was made from, at a
\* latitude where kx and ky differ
C1_Witness ==
    /\ Len(rulers) >= 2
    /\ hist.op = "clone_with_unit"
    /\ rulers[1].distance_unit # rulers[2].distance_unit
    /\ rulers[1].kx # rulers[1].ky
    /\ \E i \in 1..Len(rulers) : rulers[i].distance_unit = "Miles"

-----------------------------------------------------------------------------
(* Distances *)

long_diff_truncated(a, b) ==
    LET x == RSub(a, b)
        q == RDiv(x, R(360))
        n == Sign(q.n) * (Abs(q.n) \div q.d)
    IN  RSub(x, RMul(R(n), R(360)))

long_diff(a, b) == remainder(RSub(a, b), R(360))

square_distance(self, a, b) ==
    LET dx == RMul(long_diff(a.x, b.x), self.kx)
        dy == RMul(RSub(a.y, b.y), self.ky)
    IN  RAdd(RMul(dx, dx), RMul(dy, dy))

distance(self, a, b) == RSqrt(square_distance(self, a, b))

interpolate(a, b, t) ==
    LET dx == long_diff(b.x, a.x)
        dy == RSub(b.y, a.y)
    IN  Pt(RAdd(a.x, RMul(dx, t)), RAdd(a.y, RMul(dy, t)))

\* the zip of (None, p0, p1, ...) with (p0, p1, ...): the first pair adds 0
RECURSIVE line_distance_from(_, _, _)
line_distance_from(self, points, i) ==
    IF i > Len(points) THEN R(0)
    ELSE RAdd(IF i = 1 THEN R(0) ELSE distance(self, points[i - 1], points[i]),
              line_distance_from(self, points, i + 1))

\* the sum is taken left to right; exact addition is associative
line_distance(self, points) == line_distance_from(self, points, 1)

-----------------------------------------------------------------------------
(* Area *)

\* the loop of sum_area from j (0-based) on, k the previous index
RECURSIVE sum_area_loop(_, _, _, _)
sum_area_loop(line, j, k, sum) ==
    IF j >= Len(line) THEN sum
    ELSE sum_area_loop(line, j + 1, j,
            RAdd(sum, RMul(RSub(line[j + 1].x, line[k + 1].x),
                           RAdd(line[j + 1].y, line[k + 1].y))))

\* rings are not empty in the model: line_len - 1 does not underflow
sum_area(line) == sum_area_loop(line, 0, Len(line) - 1, R(0))

RECURSIVE subtract_interiors(_, _, _)
subtract_interiors(sum, interiors, i) ==
    IF i > Len(interiors) THEN sum
    ELSE subtract_interiors(RSub(sum, sum_area(interiors[i])), interiors, i + 1)

area(self, polygon) ==
    LET sum == subtract_interiors(sum_area(polygon.exterior), polygon.interiors, 1)
    IN  RMul(RMul(RDiv(RAbs(sum), R(2)), self.kx), self.ky)

-----------------------------------------------------------------------------
(* Bounding boxes *)

inside_bbox(self, p, bbox) ==
    /\ RGe(p.y, bbox.min.y)
    /\ RLe(p.y, bbox.max.y)
    /\ RGe(long_diff(p.x, bbox.min.x), R(0))
    /\ RLe(long_diff(p.x, bbox.max.x), R(0))

-----------------------------------------------------------------------------
(* Nearest point on a line *)

INFINITY == [n |-> 1, d |-> 0]

None == [some |-> FALSE]

\* PointOnLine::new(point, index, t)
PointOnLine(point, index, t) == [some |-> TRUE, point |-> point, index |-> index, t |-> t]

\* line[i], i counted from 0 as in the source
At(line, i) == line[i + 1]

closer_or_equal(d2, min_dist) == RLe(d2, min_dist)

\* if d2 < min_dist
closer(d2, min_dist) == RLt(d2, min_dist)

\* if d2 < min_dist { min_dist = d2; min_x = x; min_y = y; min_i = i; min_t = t }
keep_minimum(i, m, t, x, y, d2) ==
    IF closer(d2, m.min_dist)
    THEN [min_dist |-> d2, min_x |-> x, min_y |-> y, min_i |-> i, min_t |-> t]
    ELSE m

\* let d2 = self.square_distance(&point, &point!(x: x, y: y))
measure_projection(self, point, i, m, t, x, y) ==
    keep_minimum(i, m, t, x, y, square_distance(self, point, Pt(x, y)))

\* the projection of point on segment i, given the segment's dx, dy and t:
\* the segment's end if t > 1, the point at t if t > 0, else its start
project_on_segment(self, line, point, i, m, dx, dy, nonzero, t) ==
    measure_projection(self, point, i, m, t,
        IF nonzero /\ RGt(t, R(1)) THEN At(line, i + 1).x
        ELSE IF nonzero /\ RGt(t, R(0))
             THEN RAdd(At(line, i).x, RMul(RDiv(dx, self.kx), t))
             ELSE At(line, i).x,
        IF nonzero /\ RGt(t, R(1)) THEN At(line, i + 1).y
        ELSE IF nonzero /\ RGt(t, R(0))
             THEN RAdd(At(line, i).y, RMul(RDiv(dy, self.ky), t))
             ELSE At(line, i).y)

\* t of point along segment i, given the segment's dx and dy; 0 for a
\* zero-length segment
segment_parameter(self, line, point, i, m, dx, dy) ==
    project_on_segment(self, line, point, i, m, dx, dy,
        RNe(dx, R(0)) \/ RNe(dy, R(0)),
        IF RNe(dx, R(0)) \/ RNe(dy, R(0))
        THEN RDiv(RAdd(RMul(RMul(long_diff(point.x, At(line, i).x), self.kx), dx),
                       RMul(RMul(RSub(point.y, At(line, i).y), self.ky), dy)),
                  RAdd(RMul(dx, dx), RMul(dy, dy)))
        ELSE R(0))

\* one pass of the loop body for segment i, on the running minimum m
point_on_line_segment(self, line, point, i, m) ==
    segment_parameter(self, line, point, i, m,
        RMul(long_diff(At(line, i + 1).x, At(line, i).x), self.kx),
        RMul(RSub(At(line, i + 1).y, At(line, i).y), self.ky))

RECURSIVE point_on_line_loop(_, _, _, _, _)
point_on_line_loop(self, line, point, i, m) ==
    IF i >= Len(line) - 1 THEN m
    ELSE point_on_line_loop(self, line, point, i + 1,
                            point_on_line_segment(self, line, point, i, m))

\* Some(PointOnLine::new(point!(x: min_x, y: min_y), min_i, 0f64.max(1f64.min(min_t))))
point_on_line_result(m) ==
    PointOnLine(Pt(m.min_x, m.min_y), m.min_i, RMax(R(0), RMin(R(1), m.min_t)))

point_on_line(self, line, point) ==
    IF Len(line) = 0 THEN None
    ELSE point_on_line_result(
            point_on_line_loop(self, line, point, 0,
                [min_dist |-> INFINITY, min_x |-> R(0), min_y |-> R(0),
                 min_i |-> 0, min_t |-> R(0)]))

-----------------------------------------------------------------------------
(* Slicing *)

Panic == [status |-> "panic"]

Ok(value) == [status |-> "ok", value |-> value]

needs_swap_index_only(pol1, pol2) == pol1.index > pol2.index

\* pol1.index() > pol2.index() || pol1.index() == pol2.index() && pol1.t() > pol2.t()
needs_swap(pol1, pol2) ==
    \/ pol1.index > pol2.index
    \/ pol1.index = pol2.index /\ RGt(pol1.t, pol2.t)

\* while i <= r { slice.push(line[i]); i += 1 }; an index past the end panics
RECURSIVE push_vertices(_, _, _, _)
push_vertices(line, i, r, slice) ==
    IF i > r THEN Ok(slice)
    ELSE IF i >= Len(line) THEN Panic
    ELSE push_vertices(line, i + 1, r, Append(slice, At(line, i)))

\* if line[r] != pol2.point() { slice.push(pol2.point()) }, after the loop
line_slice_finish(line, r, pol2, pushed) ==
    IF pushed.status = "panic" \/ r >= Len(line) THEN Panic
    ELSE IF ~PtEq(At(line, r), pol2.point)
         THEN Ok(Append(pushed.value, pol2.point))
         ELSE pushed

\* the slice from pol1 to pol2, the two projections in line order
line_slice_between(line, pol1, pol2) ==
    IF pol1.index + 1 >= Len(line) THEN Panic
    ELSE line_slice_finish(line, pol2.index, pol2,
            push_vertices(line, pol1.index + 2, pol2.index,
                IF ~PtEq(At(line, pol1.index + 1), pol1.point)
                     /\ pol1.index + 1 <= pol2.index
                THEN <<pol1.point, At(line, pol1.index + 1)>>
                ELSE <<pol1.point>>))

\* the slice, given the projections of start and stop
line_slice_of(line, a, b) ==
    IF ~a.some \/ ~b.some THEN Ok(<<>>)
    ELSE IF needs_swap(a, b) THEN line_slice_between(line, b, a)
    ELSE line_slice_between(line, a, b)

line_slice(self, start, stop, line) ==
    line_slice_of(line, point_on_line(self, line, start),
                  point_on_line(self, line, stop))

\* the slice after `if sum > start && slice.is_empty() { slice.push(...) }`
push_start(start, slice, p0, p1, d, sum) ==
    IF RGt(sum, start) /\ slice = <<>>
    THEN Append(slice, interpolate(p0, p1, RDiv(RSub(start, RSub(sum, d)), d)))
    ELSE slice

\* the loop of line_slice_along from segment i on, sum0 the length so far
RECURSIVE line_slice_along_loop(_, _, _, _, _, _, _)

\* the rest of the loop body for segment i, given its length d, the new sum
\* and the slice after the start point was pushed
line_slice_along_rest(self, start, stop, line, i, d, sum, slice1) ==
    IF RGe(sum, stop)
    THEN Append(slice1, interpolate(At(line, i), At(line, i + 1),
                                    RDiv(RSub(stop, RSub(sum, d)), d)))
    ELSE line_slice_along_loop(self, start, stop, line, i + 1, sum,
             IF RGt(sum, start) THEN Append(slice1, At(line, i + 1)) ELSE slice1)

\* the loop body for segment i, given its length d and the new sum
line_slice_along_segment(self, start, stop, line, i, slice, d, sum) ==
    line_slice_along_rest(self, start, stop, line, i, d, sum,
        push_start(start, slice, At(line, i), At(line, i + 1), d, sum))

\* sum += d
line_slice_along_add(self, start, stop, line, i, sum0, slice, d) ==
    line_slice_along_segment(self, start, stop, line, i, slice, d, RAdd(sum0, d))

line_slice_along_loop(self, start, stop, line, i, sum0, slice) ==
    IF i >= Len(line) - 1 THEN slice
    ELSE line_slice_along_add(self, start, stop, line, i, sum0, slice,
             distance(self, At(line, i), At(line, i + 1)))

\* line_slice_along that, like along(), falls back to the last vertex
line_slice_along_clamped(self, start, stop, line) ==
    IF Len(line) = 0 THEN <<>>
    ELSE LET slice == line_slice_along_loop(self, start, stop, line, 0, R(0), <<>>)
         IN  IF slice = <<>> THEN <<At(line, Len(line) - 1)>> ELSE slice

line_slice_along(self, start, stop, line) ==
    IF Len(line) = 0 THEN <<>>
    ELSE line_slice_along_loop(self, start, stop, line, 0, R(0), <<>>)

-----------------------------------------------------------------------------
(* Calls of the pure operations: Init draws a ruler and the arguments, the  *)
(* one action of each specification makes the call and records its result. *)

\* The most points of an input line.
MaxLen == 3

\* The most interior rings of an input polygon.
MaxHoles == 2

NoHist == [op |-> "none"]

\* a ruler with the given multipliers (in kilometers, so that the curvature
\* factors are the multipliers divided by RAD * RE)
ruler_with(kx, ky) ==
    LET mul == RMul(RMul(conversion_factor_kilometers("Kilometers"), RAD), RE)
    IN  [kx |-> kx, ky |-> ky, dkx |-> RDiv(kx, mul), dky |-> RDiv(ky, mul),
         distance_unit |-> "Kilometers"]

\* an isotropic ruler and one whose latitude scale is twice its longitude scale
GeomRulers == {ruler_with(R(1), R(1)), ruler_with(R(1), R(2))}

Points(xs, ys) == {Pt(R(x), R(y)) : x \in xs, y \in ys}

LinesOver(S) == UNION {[1..n -> S] : n \in 0..MaxLen}

\* points on both sides of the antimeridian
WrapPoints == Points({178, 180, -178}, {0, 2})

InitCall(self, c) ==
    /\ rulers = <<self>>
    /\ hist = NoHist
    /\ call = c
    /\ ret = Pending

InitPointOnLine ==
    \E self \in GeomRulers, line \in LinesOver(WrapPoints), point \in WrapPoints :
        InitCall(self, [op |-> "point_on_line", line |-> line, point |-> point])

CallPointOnLine ==
    /\ call.op = "point_on_line"
    /\ ret.status = "pending"
    /\ ret' = Ok(point_on_line(rulers[1], call.line, call.point))
    /\ UNCHANGED <<rulers, hist, call>>

SpecPointOnLine == InitPointOnLine /\ [][CallPointOnLine]_vars

PointOnLineReturned == call.op = "point_on_line" /\ ret.status = "ok"

\* C2: point_on_line returns None for every line with fewer than 2 points
\* (0 points or exactly 1 point), whatever the query point.
C2_NoneBelowTwoPoints ==
    (PointOnLineReturned /\ Len(call.line) < 2) => ~ret.value.some

CornerPoints == Points({178, -178}, {0, 2})

InitLineSlice ==
    \E self \in GeomRulers, line \in LinesOver(CornerPoints),
       start \in WrapPoints, stop \in WrapPoints :
        InitCall(self, [op |-> "line_slice", start |-> start, stop |-> stop,
                        line |-> line])

CallLineSlice ==
    /\ call.op = "line_slice"
    /\ ret.status = "pending"
    /\ ret' = line_slice(rulers[1], call.start, call.stop, call.line)
    /\ UNCHANGED <<rulers, hist, call>>

SpecLineSlice == InitLineSlice /\ [][CallLineSlice]_vars

LineSliceReturned == call.op = "line_slice" /\ ret.status # "pending"

\* C3: line_slice returns an empty line, without failing, for every line with
\* fewer than 2 points (0 points or exactly 1 point) and any start and stop.
C3_EmptyBelowTwoPoints ==
    (LineSliceReturned /\ Len(call.line) < 2) => ret = Ok(<<>>)

\* the projections of start and stop, as line_slice computes them
StartProjection == point_on_line(rulers[1], call.line, call.start)

StopProjection == point_on_line(rulers[1], call.line, call.stop)

\* the projections a and b fall on the same segment of a line of at least
\* 2 points
SameSegment(a, b) ==
    /\ LineSliceReturned
    /\ Len(call.line) >= 2
    /\ a.index = b.index

\* C9 as stated: when both projections fall on the same segment, line_slice
\* returns exactly two points, the projection with the smaller t followed by
\* the one with the larger t.
C9_ExactlyTwoPoints ==
    LET a == StartProjection
        b == StopProjection
        first == IF RGt(a.t, b.t) THEN b ELSE a
        second == IF RGt(a.t, b.t) THEN a ELSE b
    IN  SameSegment(a, b) => ret = Ok(<<first.point, second.point>>)

\* C9 amended: when both projections fall on the same segment, line_slice
\* returns the projection with the smaller t, followed by the projection with
\* the larger t unless that point equals the start vertex of the segment (the
\* result is then the single first point); no original vertex is between.
C9_TwoPointsUnlessAtSegmentStart ==
    LET a == StartProjection
        b == StopProjection
        first == IF RGt(a.t, b.t) THEN b ELSE a
        second == IF RGt(a.t, b.t) THEN a ELSE b
    IN  SameSegment(a, b) =>
            ret = Ok(IF PtEq(At(call.line, second.index), second.point)
                     THEN <<first.point>>
                     ELSE <<first.point, second.point>>)

\* start projects further along the segment than stop, on the second segment
\* of a 3-point line, and the two projections come back in line order
C9_Witness ==
    LET a == StartProjection
        b == StopProjection
    IN  /\ SameSegment(a, b)
        /\ Len(call.line) = 3
        /\ a.index = 1
        /\ RGt(a.t, b.t)
        /\ RGt(b.t, R(0))
        /\ ret = Ok(<<b.point, a.point>>)

-----------------------------------------------------------------------------
(* line_slice_along *)

\* points whose mutual distances are 3, 4 and 5 under the isotropic ruler
GridPoints == Points({0, 3}, {0, 4})

\* every segment of the line has a rational length under the ruler, so that
\* distance() is exact in the model
ExactLine(self, line) ==
    \A i \in 1..(Len(line) - 1) :
        LET d2 == square_distance(self, line[i], line[i + 1])
        IN  IsSquare(d2.n) /\ IsSquare(d2.d)

\* the distances the model draws start and stop from: fixed ones, within
\* the shorter lines and beyond all of them, and the line's own total length
AlongChoices ==
    {[total |-> FALSE, dist |-> d] : d \in {0, 2, 6, 20, 30}}
        \cup {[total |-> TRUE, dist |-> 0]}

AlongDistance(self, c, line) ==
    IF c.total THEN line_distance(self, line) ELSE R(c.dist)

InitLineSliceAlong ==
    \E self \in GeomRulers, c1 \in AlongChoices, c2 \in AlongChoices,
       line \in LinesOver(GridPoints) :
        /\ ExactLine(self, line)
        /\ InitCall(self, [op |-> "line_slice_along",
                           start |-> AlongDistance(self, c1, line),
                           stop |-> AlongDistance(self, c2, line),
                           line |-> line])

CallLineSliceAlong ==
    /\ call.op = "line_slice_along"
    /\ ret.status = "pending"
    /\ ret' = Ok(line_slice_along(rulers[1], call.start, call.stop, call.line))
    /\ UNCHANGED <<rulers, hist, call>>

SpecLineSliceAlong == InitLineSliceAlong /\ [][CallLineSliceAlong]_vars

LineSliceAlongReturned == call.op = "line_slice_along" /\ ret.status = "ok"

\* C7: for every line with at least 2 points, line_slice_along(0,
\* line_distance(line), line) returns the full input line: the same number of
\* points, in the same order, each equal to the corresponding input vertex,
\* also when the line has consecutive identical vertices.
C7_FullLine ==
    ( /\ LineSliceAlongReturned
      /\ Len(call.line) >= 2
      /\ call.start = R(0)
      /\ call.stop = line_distance(rulers[1], call.line) )
    => ret.value = call.line

\* C10 as stated: line_slice_along returns an empty line whenever the line has
\* 0 points, or start is beyond the line's total length, or stop is beyond
\* it, for every combination of start and stop (stop < start included).
C10_EmptyWhenEitherBeyond ==
    LET total == line_distance(rulers[1], call.line)
    IN  ( /\ LineSliceAlongReturned
          /\ \/ Len(call.line) = 0
             \/ RGt(call.start, total)
             \/ RGt(call.stop, total) )
        => ret.value = <<>>

\* C10 amended: line_slice_along returns an empty line whenever the line has
\* 0 points, or both start and stop are beyond the line's total length, for
\* every combination of start and stop (stop < start included).
C10_EmptyWhenBothBeyond ==
    LET total == line_distance(rulers[1], call.line)
    IN  ( /\ LineSliceAlongReturned
          /\ \/ Len(call.line) = 0
             \/ RGt(call.start, total) /\ RGt(call.stop, total) )
        => ret.value = <<>>

\* a 3-point line of non-zero length, start and stop both beyond its end and
\* stop before start: the slice is empty
C10_Witness ==
    /\ LineSliceAlongReturned
    /\ Len(call.line) = 3
    /\ RGt(line_distance(rulers[1], call.line), R(0))
    /\ RGt(call.stop, line_distance(rulers[1], call.line))
    /\ RGt(call.start, call.stop)
    /\ ret.value = <<>>

-----------------------------------------------------------------------------
(* area *)

\* the closed ring of the box (x0, y0)-(x1, y1), counter-clockwise or clockwise
BoxRing(b, ccw) ==
    LET p1 == Pt(R(b[1]), R(b[2]))
        p2 == Pt(R(b[3]), R(b[2]))
        p3 == Pt(R(b[3]), R(b[4]))
        p4 == Pt(R(b[1]), R(b[4]))
    IN  IF ccw THEN <<p1, p2, p3, p4, p1>> ELSE <<p1, p4, p3, p2, p1>>

ExteriorBoxes == {<<0, 0, 6, 6>>, <<0, 0, 6, 7>>}

\* pairwise disjoint boxes inside every exterior box
HoleBoxes == {<<1, 1, 2, 2>>, <<3, 1, 5, 2>>, <<1, 3, 2, 5>>}

\* sequences of at most MaxHoles distinct hole boxes, each with a direction
HoleChoices ==
    UNION {{h \in [1..n -> HoleBoxes \X BOOLEAN] :
               \A i, j \in 1..n : i # j => h[i][1] # h[j][1]} : n \in 0..MaxHoles}

InitArea ==
    \E self \in GeomRulers, e \in ExteriorBoxes, eccw \in BOOLEAN, h \in HoleChoices :
        InitCall(self, [op |-> "area",
                        polygon |-> [exterior |-> BoxRing(e, eccw),
                                     interiors |-> [i \in 1..Len(h) |->
                                                     BoxRing(h[i][1], h[i][2])]]])

CallArea ==
    /\ call.op = "area"
    /\ ret.status = "pending"
    /\ ret' = Ok(area(rulers[1], call.polygon))
    /\ UNCHANGED <<rulers, hist, call>>

SpecArea == InitArea /\ [][CallArea]_vars

\* the planar shoelace area of a ring: half the absolute shoelace sum
ShoelaceArea(ring) == RDiv(RAbs(sum_area(ring)), R(2))

RECURSIVE SumShoelaceAreas(_, _)
SumShoelaceAreas(rings, i) ==
    IF i > Len(rings) THEN R(0)
    ELSE RAdd(ShoelaceArea(rings[i]), SumShoelaceAreas(rings, i + 1))

\* C4: for every polygon whose holes lie inside its exterior ring, area is
\* (shoelace area of the exterior ring minus the sum of the shoelace areas of
\* the interior rings) * kx * ky, whatever the winding direction of the
\* exterior ring and of each interior ring.
C4_AreaMinusHoles ==
    (call.op = "area" /\ ret.status = "ok") =>
        ret.value = RMul(RMul(RSub(ShoelaceArea(call.polygon.exterior),
                                   SumShoelaceAreas(call.polygon.interiors, 1)),
                              rulers[1].kx), rulers[1].ky)

-----------------------------------------------------------------------------
(* long_diff *)

Longitudes == {-360, -270, -180, -90, -1, 0, 1, 90, 179, 180, 181, 270, 360, 540}

\* long_diff is a free function: no ruler is involved
InitLongDiff ==
    \E a \in Longitudes, b \in Longitudes :
        /\ rulers = <<>>
        /\ hist = NoHist
        /\ call = [op |-> "long_diff", a |-> a, b |-> b]
        /\ ret = Pending

CallLongDiff ==
    /\ call.op = "long_diff"
    /\ ret.status = "pending"
    /\ ret' = Ok(long_diff(R(call.a), R(call.b)))
    /\ UNCHANGED <<rulers, hist, call>>

SpecLongDiff == InitLongDiff /\ [][CallLongDiff]_vars

LongDiffReturned == call.op = "long_diff" /\ ret.status = "ok"

\* r is a whole number congruent to a - b modulo 360
Congruent(r, a, b) == r.d = 1 /\ (r.n - (a - b)) % 360 = 0

\* C5 as stated: long_diff(p, q) is congruent to p - q modulo 360 and lies in
\* (-180, 180]: it is never -180, and when p - q is an odd multiple of 180
\* the result is +180.
C5_HalfOpenRange ==
    LongDiffReturned =>
        /\ Congruent(ret.value, call.a, call.b)
        /\ RGt(ret.value, R(-180))
        /\ RLe(ret.value, R(180))
        /\ (call.a - call.b) % 360 = 180 => ret.value = R(180)

\* C5 amended: long_diff(p, q) is congruent to p - q modulo 360 and lies in
\* the closed interval [-180, 180]; when p - q is an odd multiple of 180 the
\* result is +180 if p - q is 180 modulo 720 and -180 if it is 540 modulo 720
\* (the quotient is rounded to the even integer), so p = 0, q = 180 gives -180.
C5_ClosedRange ==
    LongDiffReturned =>
        /\ Congruent(ret.value, call.a, call.b)
        /\ RGe(ret.value, R(-180))
        /\ RLe(ret.value, R(180))
        /\ (call.a - call.b) % 720 = 180 => ret.value = R(180)
        /\ (call.a - call.b) % 720 = 540 => ret.value = R(-180)

\* long_diff(0, 180) returned -180
C5_Witness ==
    /\ LongDiffReturned
    /\ call.a = 0
    /\ call.b = 180
    /\ ret.value = R(-180)

-----------------------------------------------------------------------------
(* inside_bbox *)

BoxLongitudes == {-170, -100, 100, 170}

PointLongitudes == {-175, -170, -100, 0, 90, 100, 170, 175}

InitInsideBbox ==
    \E self \in GeomRulers, p \in Points(PointLongitudes, {0, 20}),
       minx \in BoxLongitudes, maxx \in BoxLongitudes :
        InitCall(self, [op |-> "inside_bbox", p |-> p,
                        bbox |-> [min |-> Pt(R(minx), R(-10)),
                                  max |-> Pt(R(maxx), R(10))]])

CallInsideBbox ==
    /\ call.op = "inside_bbox"
    /\ ret.status = "pending"
    /\ ret' = Ok(inside_bbox(rulers[1], call.p, call.bbox))
    /\ UNCHANGED <<rulers, hist, call>>

SpecInsideBbox == InitInsideBbox /\ [][CallInsideBbox]_vars

\* the whole-degree longitude lng lies on the arc that runs eastward from
\* minx to maxx
OnEastwardArc(lng, minx, maxx) == (lng - minx) % 360 <= (maxx - minx) % 360

\* C6: inside_bbox(p, bbox) is true exactly when min.y <= p.lat <= max.y and
\* p's longitude lies on the arc that runs eastward from min.x to max.x, for
\* every box, those that cross the antimeridian (min.x > max.x) included.
C6_ClassifiesEveryBox ==
    (call.op = "inside_bbox" /\ ret.status = "ok") =>
        ret.value = ( /\ RLe(call.bbox.min.y, call.p.y)
                      /\ RLe(call.p.y, call.bbox.max.y)
                      /\ OnEastwardArc(call.p.x.n, call.bbox.min.x.n,
                                       call.bbox.max.x.n) )

=============================================================================
